---- MODULE Spec2Model ----
(***************************************************************************)
(* Model of the Trezor hardware wallet class (src/src/trezor/class.js):    *)
(* the static factory open(), the constructor, the instance methods        *)
(* setDefaultAddress / sign / signMessage / verifyMessage and the static   *)
(* signTransaction / signMessage / verifyMessage, each with the device     *)
(* transport (payloadListener) answering inside the call.                  *)
(*                                                                         *)
(* JavaScript values are triples <<tag, a, b>> (a string and two integers) *)
(* so that values of different JavaScript types can be compared.           *)
(***************************************************************************)
EXTENDS Integers, Sequences, FiniteSets, TLC

VARIABLES
  instance,           \* TRUE once the caller holds a wallet returned by open()
  allAddresses,       \* the constructor's local `otherAddresses` array of address records
  address,            \* this.address
  publicKey,          \* this.publicKey
  path,               \* this.path
  provider,           \* this.provider
  hasOtherAddresses,  \* whether the `otherAddresses` property was defined
  otherAddresses,     \* this.otherAddresses (array of address strings)
  call,               \* the last call: its method name and arguments
  result,             \* how the last call's promise settled
  warnings,           \* the warnings the last call emitted, in order
  request,            \* the payload the last call handed to payloadListener
  transport,          \* what payloadListener answered in the last call
  input,              \* input of the pure function under check
  output              \* its result

walletVars == <<instance, allAddresses, address, publicKey, path, provider,
                hasOtherAddresses, otherAddresses>>
callVars == <<call, result, warnings, request, transport>>
fnVars == <<input, output>>
vars == <<instance, allAddresses, address, publicKey, path, provider,
          hasOtherAddresses, otherAddresses, call, result, warnings, request,
          transport, input, output>>

----------------------------------------------------------------------------
(* Bounds of the model *)

MaxCount == 3        \* largest explicit addressCount handed to open()
MaxIndex == 12       \* largest index handed to setDefaultAddress()
MaxNonce == 4200     \* largest nonce of the nonce-encoding specification
MaxMsgLen == 1030    \* longest message of the message-validator specification

----------------------------------------------------------------------------
(* JavaScript values *)

Undefined == <<"undefined", 0, 0>>
Num(n) == <<"number", n, 0>>
Fraction == <<"fraction", 1, 2>>        \* a number that is not an integer
True == <<"boolean", 1, 0>>
False == <<"boolean", 0, 0>>

IsUndefined(v) == v[1] = "undefined"
\* JavaScript truthiness of a value of the kinds above
Truthy(v) ==
  CASE v[1] = "undefined" -> FALSE
    [] v[1] = "number" -> v[2] # 0
    [] v[1] = "boolean" -> v[2] = 1
    [] OTHER -> TRUE

COIN_MAINNET == 60
COIN_TESTNET == 1
DEFAULT_ADDRESS_COUNT == 10
DEFAULT_NONCE == 0
DEFAULT_CHAIN_ID == 1

CANCEL_ACC_EXPORT == "STD_ERRORS.CANCEL_ACC_EXPORT"
CANCEL_TX_SIGN == "STD_ERRORS.CANCEL_TX_SIGN"
userExportCancel == "messages.userExportCancel"
userSignTxCancel == "messages.userSignTxCancel"
NoProviderSet == "No provider set"

\* Errors a call can reject with
ValidationError == "InputValidationError"
TypeError == "TypeError"
AddressError == "invalid address"
NoError == ""

----------------------------------------------------------------------------
(* Validators, serializers and the key derivation used by the class *)

\* safeIntegerValidator: passes only non-negative safe integers
safeIntegerValidator(v) == v[1] = "number" /\ v[2] >= 0

\* derivationPathSerializer({ coinType, addressIndex }): index -1 is "no index"
derivationPathSerializer(coinType, addressIndex) == <<"path", coinType, addressIndex>>
RootPath(coinType) == derivationPathSerializer(coinType, -1)
InvalidPath == <<"invalid-path", 0, 0>>

\* derivationPathValidator: passes only well-formed derivation paths
derivationPathValidator(p) == p[1] = "path"

\* fromString(derivationPathNormalizer(path), true).toPathArray():
\* m/44'/coin'/0'/0[/index] as components <<number, hardened>>
toPathArray(p) ==
  LET head == << <<44, 1>>, <<p[2], 1>>, <<0, 1>>, <<0, 0>> >>
  IN IF p[3] < 0 THEN head ELSE Append(head, <<p[3], 0>>)

\* hdKey.derive(`m/${index}`).publicKey as hex, for root key k
DerivedPublicKey(k, index) == <<"publicKey", k, index>>
\* SigningKey.publicKeyToAddress(derived public key)
publicKeyToAddress(pk) == <<"address", pk[2], pk[3]>>

\* validateAddress (ethers getAddress): passes checksummable addresses
validateAddress(a) == a[1] = "address"
\* the address with its 0x prefix sliced off
StripPrefix(a) == <<"address-no-0x", a[2], a[3]>>
InvalidAddress == <<"invalid-address", 0, 0>>

----------------------------------------------------------------------------
(* Providers *)

MAIN_NETWORK == "homestead"

NoProvider == [set |-> FALSE, name |-> "", testnet |-> FALSE, chainId |-> Undefined]
Provider(name, testnet, chainId) ==
  [set |-> TRUE, name |-> name, testnet |-> testnet, chainId |-> chainId]

\* the provider that the default `autoselect` function resolves to
AutoselectProvider == Provider(MAIN_NETWORK, FALSE, Num(1))

\* the `provider` argument of open(): left out (autoselect, a function), an
\* object, or a value that is neither an object nor a function
ProviderArguments ==
  { [kind |-> "function", object |-> AutoselectProvider],
    [kind |-> "object", object |-> Provider("rinkeby", TRUE, Num(4))],
    [kind |-> "object", object |-> Provider("unspecified", FALSE, Num(0))],
    [kind |-> "other", object |-> NoProvider] }

----------------------------------------------------------------------------
(* The device transport: payloadListener({ payload }) *)

NotCalled == [outcome |-> "not called", message |-> NoError, value |-> Undefined]
Resolved(v) == [outcome |-> "resolve", message |-> NoError, value |-> v]
Rejected(m) == [outcome |-> "reject", message |-> m, value |-> Undefined]

TransportMessages == {CANCEL_ACC_EXPORT, CANCEL_TX_SIGN, "Device disconnected"}
Rejections == {Rejected(m) : m \in TransportMessages}

\* the root public key and chain code the device exports
DeviceKey == 1
XpubResponses == {Resolved(<<"xpub", DeviceKey, 0>>)} \cup Rejections
SignTxResponses == {Resolved(<<"signedTransaction", 0, 0>>)} \cup Rejections
SignMsgResponses == {Resolved(<<"signature", 0, 0>>)} \cup Rejections
VerifyMsgResponses == {Resolved(True), Resolved(False)} \cup Rejections

NoRequest == [type |-> "none"]

\* how a promise settles
Resolve(v) == [status |-> "resolved", value |-> v, error |-> NoError]
Reject(e) == [status |-> "rejected", value |-> Undefined, error |-> e]
WalletValue == <<"wallet", 0, 0>>

----------------------------------------------------------------------------
(* The constructor *)

\* addressCount: number = 10
CountOrDefault(addressCount) ==
  IF IsUndefined(addressCount) THEN Num(DEFAULT_ADDRESS_COUNT) ELSE addressCount

\* new Array(addressCount || 1)
ArrayLength(addressCount) == IF addressCount[2] = 0 THEN 1 ELSE addressCount[2]

\* The address record derived at `index` (lines 71-101)
AddressObject(k, coinType, index) ==
  LET derivedKey == DerivedPublicKey(k, index)
  IN [path |-> derivationPathSerializer(coinType, index),
      publicKey |-> derivedKey,
      address |-> publicKeyToAddress(derivedKey)]

\* Array.from(new Array(addressCount || 1), (value, index) => addressObject)
DeriveAddresses(k, coinType, addressCount) ==
  [i \in 1..ArrayLength(addressCount) |-> AddressObject(k, coinType, i - 1)]

\* the `otherAddresses` property is defined only if (addressCount > 1)
DefinesOtherAddresses(addressCount) == addressCount[2] > 1

\* the derived addresses without the one at index 0
OtherAddressesWithoutFirst(addresses) ==
  [i \in 1..(Len(addresses) - 1) |-> addresses[i + 1].address]

\* otherAddresses.map(({ address }) => address)
OtherAddressesValue(addresses) == [i \in 1..Len(addresses) |-> addresses[i].address]

\* new TrezorWallet(publicKey, chainCode, coinType, addressCount, provider),
\* for an addressCount that passes safeIntegerValidator
Constructor(k, coinType, addressCountArg, providerMode) ==
  LET addressCount == CountOrDefault(addressCountArg)
      derived == DeriveAddresses(k, coinType, addressCount)
  IN /\ instance' = TRUE
     /\ allAddresses' = derived
     /\ address' = derived[1].address
     /\ publicKey' = derived[1].publicKey
     /\ path' = derived[1].path
     /\ provider' = providerMode
     /\ hasOtherAddresses' = DefinesOtherAddresses(addressCount)
     /\ otherAddresses' = IF DefinesOtherAddresses(addressCount)
                          THEN OtherAddressesValue(derived)
                          ELSE <<>>

----------------------------------------------------------------------------
(* static open({ addressCount, provider = autoselect }) *)

\* a catch block that rethrows what it caught
OpenCatchRethrows(message) == Reject(message)

\* what the catch block of open() returns for a caught error (lines 366-371)
OpenCatch(message) == Resolve(Undefined)
OpenCatchWarnings(message) ==
  IF message = CANCEL_ACC_EXPORT THEN <<userExportCancel>> ELSE <<>>

\* providerMode after lines 317-326
ProviderMode(providerArg) ==
  IF providerArg.kind = "other" THEN NoProvider ELSE providerArg.object

\* coinType after lines 319-336
CoinType(providerMode) ==
  IF providerMode.set /\ (providerMode.testnet \/ providerMode.name # MAIN_NETWORK)
  THEN COIN_TESTNET
  ELSE COIN_MAINNET

Open(addressCount, providerArg, response) ==
  LET providerMode == ProviderMode(providerArg)
      coinType == CoinType(providerMode)
      early == IF providerArg.kind = "other" THEN <<NoProviderSet>> ELSE <<>>
  IN /\ call' = [op |-> "open", addressCount |-> addressCount,
                 provider |-> providerArg]
     /\ request' = [type |-> "XPUB", path |-> toPathArray(RootPath(coinType))]
     /\ transport' = response
     /\ UNCHANGED fnVars
     /\ IF response.outcome = "resolve"
        THEN IF safeIntegerValidator(CountOrDefault(addressCount))
             THEN /\ Constructor(response.value[2], coinType, addressCount, providerMode)
                  /\ result' = Resolve(WalletValue)
                  /\ warnings' = early
             ELSE \* the constructor throws inside the try block
                  /\ result' = OpenCatch(ValidationError)
                  /\ warnings' = early \o OpenCatchWarnings(ValidationError)
                  /\ UNCHANGED walletVars
        ELSE /\ result' = OpenCatch(response.message)
             /\ warnings' = early \o OpenCatchWarnings(response.message)
             /\ UNCHANGED walletVars

----------------------------------------------------------------------------
(* setDefaultAddress(addressIndex = 0) *)

IndexOrDefault(addressIndex) == IF IsUndefined(addressIndex) THEN Num(0) ELSE addressIndex

\* range tests that lose index 0, or the upper bound
IndexInRangeAboveZero(index, addresses) == index > 0 /\ index <= Len(addresses)
IndexInRangeNoUpperBound(index, addresses) == index >= 0

\* the range test of line 169
IndexInRange(index, addresses) == index >= 0 /\ index <= Len(addresses)

\* The properties are reassigned from otherAddresses[addressIndex]; reading a
\* property of the missing element at index `length` throws a TypeError in
\* the first assignment, before anything is written.
SetDefaultAddress(addressIndex) ==
  LET index == IndexOrDefault(addressIndex)
  IN /\ instance
     /\ call' = [op |-> "setDefaultAddress", addressIndex |-> addressIndex]
     /\ request' = NoRequest
     /\ transport' = NotCalled
     /\ warnings' = <<>>
     /\ UNCHANGED <<instance, allAddresses, provider, hasOtherAddresses,
                    otherAddresses, input, output>>
     /\ IF ~safeIntegerValidator(index)
        THEN /\ result' = Reject(ValidationError)
             /\ UNCHANGED <<address, publicKey, path>>
        ELSE IF IndexInRange(index[2], allAddresses)
        THEN IF index[2] + 1 \in DOMAIN allAddresses
             THEN /\ address' = allAddresses[index[2] + 1].address
                  /\ publicKey' = allAddresses[index[2] + 1].publicKey
                  /\ path' = allAddresses[index[2] + 1].path
                  /\ result' = Resolve(True)
             ELSE /\ result' = Reject(TypeError)
                  /\ UNCHANGED <<address, publicKey, path>>
        ELSE /\ result' = Resolve(False)
             /\ UNCHANGED <<address, publicKey, path>>

----------------------------------------------------------------------------
(* Nonce encoding of signTransaction *)

HexDigits == <<"0", "1", "2", "3", "4", "5", "6", "7", "8", "9",
               "a", "b", "c", "d", "e", "f">>

\* Number.prototype.toString(16) of a non-negative integer
RECURSIVE toString16(_)
toString16(n) ==
  IF n < 16 THEN <<HexDigits[n + 1]>>
  ELSE Append(toString16(n \div 16), HexDigits[(n % 16) + 1])

\* Math.floor in place of Math.ceil
PaddedLengthFloor(hexNonce) == (Len(hexNonce) \div 2) * 2

\* Math.ceil(hexNonce.length / 2) * 2
PaddedLength(hexNonce) == ((Len(hexNonce) + 1) \div 2) * 2

\* padLeft({ length, value }): zeros on the left up to `length`
RECURSIVE padLeft(_, _)
padLeft(length, value) ==
  IF Len(value) >= length THEN value ELSE padLeft(length, <<"0">> \o value)

\* the `nonce` field of the SignTx payload (lines 434, 465-468)
HexNonce(nonce) ==
  LET hexNonce == toString16(nonce)
  IN padLeft(PaddedLength(hexNonce), hexNonce)

----------------------------------------------------------------------------
(* static signTransaction({ path, gasPrice, gasLimit, chainId, nonce = 0,
   to, value, data }) *)

NonceOrDefault(nonce) == IF IsUndefined(nonce) THEN Num(DEFAULT_NONCE) ELSE nonce

\* the validators of lines 429, 433 and 442 all pass
SignTransactionValid(tx) ==
  /\ derivationPathValidator(tx.path)
  /\ safeIntegerValidator(NonceOrDefault(tx.nonce))
  /\ safeIntegerValidator(tx.chainId)

\* modifiedPayloadObject of lines 446-472
SignTxPayload(tx) ==
  [type |-> "SIGNTX",
   address_n |-> toPathArray(tx.path),
   gas_price |-> tx.gasPrice,
   gas_limit |-> tx.gasLimit,
   chain_id |-> tx.chainId,
   nonce |-> HexNonce(NonceOrDefault(tx.nonce)[2]),
   to |-> tx.to,
   value |-> tx.value,
   data |-> tx.data]

\* what the catch block of signTransaction() returns (lines 481-486)
SignTxCatch(message) == Resolve(Undefined)
SignTxCatchWarnings(message) ==
  IF message = CANCEL_TX_SIGN THEN <<userSignTxCancel>> ELSE <<>>

\* the body of signTransaction: validation, the request and its answer
SignTransactionBody(tx, response) ==
  IF ~SignTransactionValid(tx)
  THEN /\ result' = Reject(ValidationError)
       /\ request' = NoRequest
       /\ transport' = NotCalled
       /\ warnings' = <<>>
  ELSE /\ request' = SignTxPayload(tx)
       /\ transport' = response
       /\ IF response.outcome = "resolve"
          THEN /\ result' = Resolve(response.value)
               /\ warnings' = <<>>
          ELSE /\ result' = SignTxCatch(response.message)
               /\ warnings' = SignTxCatchWarnings(response.message)

SignTransaction(tx, response) ==
  /\ call' = [op |-> "signTransaction", tx |-> tx]
  /\ SignTransactionBody(tx, response)
  /\ UNCHANGED <<walletVars, fnVars>>

----------------------------------------------------------------------------
(* sign(transactionObject = {}) *)

\* a resolution that asks the provider before the transaction object
ResolveChainIdProviderFirst(transactionObject, prov) ==
  IF prov.set /\ Truthy(prov.chainId) THEN prov.chainId
  ELSE IF ~IsUndefined(transactionObject.chainId) THEN transactionObject.chainId
  ELSE Num(DEFAULT_CHAIN_ID)

\* const { chainId = (this.provider && this.provider.chainId) || 1 } = transactionObject
ResolveChainId(transactionObject, prov) ==
  IF ~IsUndefined(transactionObject.chainId) THEN transactionObject.chainId
  ELSE IF prov.set /\ Truthy(prov.chainId) THEN prov.chainId
  ELSE Num(DEFAULT_CHAIN_ID)

\* a merge that keeps the caller's path instead of the wallet's
SignArgumentsCallerPath(transactionObject, currentPath, prov) ==
  [transactionObject EXCEPT !.chainId = ResolveChainId(transactionObject, prov)]

\* Object.assign({}, transactionObject, { path: this.path, chainId })
SignArguments(transactionObject, currentPath, prov) ==
  [transactionObject EXCEPT !.path = currentPath,
                            !.chainId = ResolveChainId(transactionObject, prov)]

Sign(transactionObject, response) ==
  LET passed == SignArguments(transactionObject, path, provider)
  IN /\ instance
     /\ call' = [op |-> "sign", tx |-> transactionObject, passed |-> passed]
     /\ SignTransactionBody(passed, response)
     /\ UNCHANGED <<walletVars, fnVars>>

----------------------------------------------------------------------------
(* static signMessage({ path, message }) and signMessage({ message }) *)

SignMsgPayload(msgPath, message) ==
  [type |-> "SIGNMSG", path |-> toPathArray(msgPath), message |-> message]

\* a signMessage that catches rejections the way signTransaction does
SignMessageBodyCatching(msgPath, message, response) ==
  IF ~derivationPathValidator(msgPath)
  THEN /\ result' = Reject(ValidationError)
       /\ request' = NoRequest
       /\ transport' = NotCalled
  ELSE /\ request' = SignMsgPayload(msgPath, message)
       /\ transport' = response
       /\ result' = IF response.outcome = "resolve"
                    THEN Resolve(response.value)
                    ELSE Resolve(Undefined)

\* the awaited payloadListener call of lines 514-528 has no try/catch
SignMessageBody(msgPath, message, response) ==
  IF ~derivationPathValidator(msgPath)
  THEN /\ result' = Reject(ValidationError)
       /\ request' = NoRequest
       /\ transport' = NotCalled
  ELSE /\ request' = SignMsgPayload(msgPath, message)
       /\ transport' = response
       /\ result' = IF response.outcome = "resolve"
                    THEN Resolve(response.value)
                    ELSE Reject(response.message)

StaticSignMessage(msgPath, message, response) ==
  /\ call' = [op |-> "signMessage", static |-> TRUE, path |-> msgPath]
  /\ SignMessageBody(msgPath, message, response)
  /\ warnings' = <<>>
  /\ UNCHANGED <<walletVars, fnVars>>

SignMessage(message, response) ==
  /\ instance
  /\ call' = [op |-> "signMessage", static |-> FALSE, path |-> path]
  /\ SignMessageBody(path, message, response)
  /\ warnings' = <<>>
  /\ UNCHANGED <<walletVars, fnVars>>

----------------------------------------------------------------------------
(* static verifyMessage({ address, message, signature }) and
   verifyMessage({ address = this.address, message, signature }) *)

VerifyMsgPayload(msgAddress, message, signature) ==
  [type |-> "VERIFYMSG", address |-> StripPrefix(msgAddress),
   message |-> message, signature |-> signature]

\* validateAddress throws before the request; the awaited payloadListener
\* call of lines 568-574 has no try/catch
VerifyMessageBody(msgAddress, message, signature, response) ==
  IF ~validateAddress(msgAddress)
  THEN /\ result' = Reject(AddressError)
       /\ request' = NoRequest
       /\ transport' = NotCalled
  ELSE /\ request' = VerifyMsgPayload(msgAddress, message, signature)
       /\ transport' = response
       /\ result' = IF response.outcome = "resolve"
                    THEN Resolve(response.value)
                    ELSE Reject(response.message)

StaticVerifyMessage(msgAddress, message, signature, response) ==
  /\ call' = [op |-> "verifyMessage", static |-> TRUE, address |-> msgAddress]
  /\ VerifyMessageBody(msgAddress, message, signature, response)
  /\ warnings' = <<>>
  /\ UNCHANGED <<walletVars, fnVars>>

\* address = this.address
AddressOrDefault(msgAddress, current) ==
  IF IsUndefined(msgAddress) THEN current ELSE msgAddress

VerifyMessage(msgAddress, message, signature, response) ==
  /\ instance
  /\ call' = [op |-> "verifyMessage", static |-> FALSE, address |-> msgAddress]
  /\ VerifyMessageBody(AddressOrDefault(msgAddress, address), message, signature, response)
  /\ warnings' = <<>>
  /\ UNCHANGED <<walletVars, fnVars>>

----------------------------------------------------------------------------
(* The wallet's life: inputs, initial state and steps *)

AddressCounts == {Undefined, Fraction} \cup {Num(n) : n \in 0..MaxCount}
Indices == {Undefined, Fraction, Num(-1)} \cup {Num(n) : n \in 0..MaxIndex}
ChainIds == {Undefined, Num(4), Fraction}
Nonces == {Undefined, Num(300), Num(-1)}
Paths == {InvalidPath, derivationPathSerializer(COIN_TESTNET, 2)}
Addresses == {Undefined, InvalidAddress,
              publicKeyToAddress(DerivedPublicKey(DeviceKey, 1))}
Message == <<"string", 7, 0>>
Signature == <<"signature", 0, 0>>
HexValue(n) == <<"hex", n, 0>>

\* a transaction object with the given path, chainId and nonce
Transaction(txPath, chainId, nonce) ==
  [path |-> txPath, chainId |-> chainId, nonce |-> nonce,
   gasPrice |-> HexValue(1), gasLimit |-> HexValue(2), to |-> HexValue(3),
   value |-> HexValue(4), data |-> HexValue(5)]

NoCall == [op |-> "none"]
NoAddresses == <<>>

IdleFn == /\ input = Undefined
          /\ output = Undefined

\* no wallet opened and no call made yet
IdleWallet ==
  /\ instance = FALSE
  /\ allAddresses = NoAddresses
  /\ address = Undefined
  /\ publicKey = Undefined
  /\ path = Undefined
  /\ provider = NoProvider
  /\ hasOtherAddresses = FALSE
  /\ otherAddresses = <<>>
  /\ call = NoCall
  /\ result = Resolve(Undefined)
  /\ warnings = <<>>
  /\ request = NoRequest
  /\ transport = NotCalled

Init ==
  /\ IdleWallet
  /\ IdleFn

Next ==
  \/ \E c \in AddressCounts, p \in ProviderArguments, r \in XpubResponses :
        Open(c, p, r)
  \/ \E i \in Indices : SetDefaultAddress(i)
  \/ \E p \in {Undefined, InvalidPath}, c \in ChainIds, n \in Nonces,
        r \in SignTxResponses : Sign(Transaction(p, c, n), r)
  \/ \E p \in Paths, c \in ChainIds, n \in Nonces, r \in SignTxResponses :
        SignTransaction(Transaction(p, c, n), r)
  \/ \E r \in SignMsgResponses : SignMessage(Message, r)
  \/ \E p \in Paths, r \in SignMsgResponses : StaticSignMessage(p, Message, r)
  \/ \E a \in Addresses, r \in VerifyMsgResponses :
        VerifyMessage(a, Message, Signature, r)
  \/ \E a \in Addresses, r \in VerifyMsgResponses :
        StaticVerifyMessage(a, Message, Signature, r)

Spec == Init /\ [][Next]_vars

----------------------------------------------------------------------------
(* signTransaction over a range of nonces: one call per behaviour *)

NonceInputs == {Undefined} \cup {Num(n) : n \in 0..MaxNonce}

InitNonce ==
  /\ IdleWallet
  /\ input \in {Transaction(derivationPathSerializer(COIN_MAINNET, 0), Num(1), n) :
                  n \in NonceInputs}
  /\ output = Undefined

NextNonce ==
  /\ call.op = "none"
  /\ \E r \in SignTxResponses : SignTransaction(input, r)

SpecNonce == InitNonce /\ [][NextNonce]_vars

----------------------------------------------------------------------------
(* messageValidator(string), the validator exercised by message.test.js *)

MESSAGE_MAX_LENGTH == 1024

Throws == <<"throws", 0, 0>>

\* a validator whose size limit is exclusive
messageValidatorExclusive(v) ==
  IF v[1] = "string" /\ v[2] < MESSAGE_MAX_LENGTH THEN True ELSE Throws

\* a message input is <<type, length in bytes, kind of characters>>; the
\* kinds are 0: hexadecimal digits, 1: other text, 2: spaces
messageValidator(v) ==
  IF v[1] = "string" /\ v[2] <= MESSAGE_MAX_LENGTH THEN True ELSE Throws

MessageInputs ==
  {<<"string", n, k>> : n \in 0..MaxMsgLen, k \in 0..2}
    \cup {<<"object", 0, 0>>, <<"number", 12, 0>>, <<"array", 0, 0>>}

InitMessage ==
  /\ IdleWallet
  /\ input \in MessageInputs
  /\ output = Undefined

ValidateMessage ==
  /\ output = Undefined
  /\ output' = messageValidator(input)
  /\ UNCHANGED <<walletVars, callVars, input>>

NextMessage == ValidateMessage

SpecMessage == InitMessage /\ [][NextMessage]_vars

----------------------------------------------------------------------------
(* Properties *)

Range(seq) == {seq[i] : i \in DOMAIN seq}

\* C1: when the transport rejects the XPUB request of open() with the
\* export-cancellation sentinel, open() resolves to undefined, emits the
\* export-cancelled warning and creates no wallet instance (the wallet the
\* caller holds, if any, is untouched).
C1_OpenCancelResolvesUndefined ==
  [][(call'.op = "open" /\ transport' = Rejected(CANCEL_ACC_EXPORT))
       => /\ result' = Resolve(Undefined)
          /\ userExportCancel \in Range(warnings')
          /\ UNCHANGED walletVars]_vars

C1_Witness ==
  /\ call.op = "open"
  /\ transport = Rejected(CANCEL_ACC_EXPORT)
  /\ result = Resolve(Undefined)
  /\ userExportCancel \in Range(warnings)

\* C2: for open() and signTransaction(), a transport rejection whose message
\* is not the operation's cancellation sentinel makes the call reject with
\* that same error.
C2_OtherRejectionsPropagate ==
  /\ (call.op = "open" /\ transport.outcome = "reject"
        /\ transport.message # CANCEL_ACC_EXPORT)
       => result = Reject(transport.message)
  /\ (call.op = "signTransaction" /\ transport.outcome = "reject"
        /\ transport.message # CANCEL_TX_SIGN)
       => result = Reject(transport.message)

\* C3: for signMessage() and verifyMessage(), static and instance forms, every
\* transport rejection, a cancellation sentinel included, makes the call
\* reject with that error, and no warning is emitted.
C3_MessageRejectionsPropagate ==
  (call.op \in {"signMessage", "verifyMessage"} /\ transport.outcome = "reject")
    => /\ result = Reject(transport.message)
       /\ warnings = <<>>

C3_Witness ==
  /\ call.op = "signMessage"
  /\ ~call.static
  /\ transport = Rejected(CANCEL_TX_SIGN)
  /\ result = Reject(CANCEL_TX_SIGN)

\* the index a setDefaultAddress call was made with, when it is a number
CalledIndex == IF IsUndefined(call.addressIndex) THEN 0 ELSE call.addressIndex[2]
IndexIsSafeInteger ==
  IsUndefined(call.addressIndex)
    \/ (call.addressIndex[1] = "number" /\ call.addressIndex[2] >= 0)

\* the default address, public key and path are those of the record at `index`
DefaultIsRecord(index) ==
  /\ index + 1 \in DOMAIN allAddresses
  /\ address = allAddresses[index + 1].address
  /\ publicKey = allAddresses[index + 1].publicKey
  /\ path = allAddresses[index + 1].path
  /\ address = <<"address", DeviceKey, index>>

C5_OutOfRangeReturnsFalse ==
  [][(/\ call'.op = "setDefaultAddress"
      /\ call'.addressIndex[1] = "number"
      /\ call'.addressIndex[2] > Len(allAddresses))
       => /\ result' = Resolve(False)
          /\ UNCHANGED <<address, publicKey, path, otherAddresses,
                         hasOtherAddresses>>]_vars

C5_Witness ==
  /\ call.op = "setDefaultAddress"
  /\ call.addressIndex[1] = "number"
  /\ call.addressIndex[2] = Len(allAddresses) + 1
  /\ hasOtherAddresses
  /\ result = Resolve(False)
  /\ address # <<"address", DeviceKey, 0>>

\* C6 as stated: a wallet with more than one derived address has an
\* otherAddresses of one entry fewer, holding every derived address except
\* the one at index 0 in derivation order; with one derived address the
\* field is absent; this holds after every later operation.
C6_OtherAddressesExcludeFirst ==
  instance =>
    IF Len(allAddresses) > 1
    THEN /\ hasOtherAddresses
         /\ Len(otherAddresses) = Len(allAddresses) - 1
         /\ \A i \in 1..Len(otherAddresses) :
              otherAddresses[i] = <<"address", DeviceKey, i>>
    ELSE ~hasOtherAddresses

\* C6 as amended: a wallet with more than one derived address has an
\* otherAddresses of exactly as many entries as derived addresses, holding
\* every derived address, the one at index 0 included, in derivation order;
\* with one derived address the field is absent; this holds after every
\* later operation.
C6_OtherAddressesHoldAll ==
  instance =>
    IF Len(allAddresses) > 1
    THEN /\ hasOtherAddresses
         /\ Len(otherAddresses) = Len(allAddresses)
         /\ \A i \in 1..Len(otherAddresses) :
              otherAddresses[i] = <<"address", DeviceKey, i - 1>>
    ELSE ~hasOtherAddresses

C6_Witness ==
  /\ instance
  /\ hasOtherAddresses
  /\ Len(otherAddresses) = 3
  /\ call.op = "setDefaultAddress"
  /\ result = Resolve(True)
  /\ address = otherAddresses[2]

\* a value that safeIntegerValidator accepts
IsSafeInteger(v) == v[1] = "number" /\ v[2] >= 0

\* C7: a validation error is fatal to the call: open() with an addressCount
\* that is no safe integer, signTransaction() with an invalid path, nonce or
\* chainId, signMessage() with an invalid path and setDefaultAddress() with
\* an invalid index all reject with the validation error.
C7_ValidationErrorsAreFatal ==
  /\ (call.op = "open" /\ transport.outcome = "resolve"
        /\ ~IsUndefined(call.addressCount) /\ ~IsSafeInteger(call.addressCount))
       => result = Reject(ValidationError)
  /\ (call.op = "signTransaction"
        /\ (\/ call.tx.path[1] # "path"
            \/ ~(IsUndefined(call.tx.nonce) \/ IsSafeInteger(call.tx.nonce))
            \/ ~IsSafeInteger(call.tx.chainId)))
       => result = Reject(ValidationError)
  /\ (call.op = "signMessage" /\ call.path[1] # "path")
       => result = Reject(ValidationError)
  /\ (call.op = "setDefaultAddress" /\ ~IndexIsSafeInteger)
       => result = Reject(ValidationError)

\* the chain id sign() handed on, and the one in the request when one was sent
PassedChainId(expected) ==
  /\ call.passed.chainId = expected
  /\ request.type = "SIGNTX" => request.chain_id = expected

\* C8 as stated: sign() passes the transaction object's chainId when given,
\* otherwise the provider's chainId when a provider is set, otherwise 1.
C8_ChainIdPrecedence ==
  call.op = "sign" =>
    PassedChainId(IF call.tx.chainId[1] # "undefined" THEN call.tx.chainId
                  ELSE IF provider.set THEN provider.chainId
                  ELSE <<"number", 1, 0>>)

\* C8 as amended: sign() passes the transaction object's chainId when given,
\* otherwise the provider's chainId when a provider is set and its chainId is
\* truthy (defined and not 0), otherwise 1.
C8_ChainIdPrecedenceTruthy ==
  call.op = "sign" =>
    PassedChainId(IF call.tx.chainId[1] # "undefined" THEN call.tx.chainId
                  ELSE IF provider.set /\ provider.chainId[1] = "number"
                          /\ provider.chainId[2] # 0
                       THEN provider.chainId
                  ELSE <<"number", 1, 0>>)

C8_Witness ==
  /\ call.op = "sign"
  /\ call.tx.chainId = Undefined
  /\ provider.set
  /\ provider.chainId = Num(4)
  /\ request.type = "SIGNTX"
  /\ request.chain_id = Num(4)

\* the value of a hexadecimal digit
DigitValue(c) ==
  CASE c = "0" -> 0 [] c = "1" -> 1 [] c = "2" -> 2 [] c = "3" -> 3
    [] c = "4" -> 4 [] c = "5" -> 5 [] c = "6" -> 6 [] c = "7" -> 7
    [] c = "8" -> 8 [] c = "9" -> 9 [] c = "a" -> 10 [] c = "b" -> 11
    [] c = "c" -> 12 [] c = "d" -> 13 [] c = "e" -> 14 [] c = "f" -> 15
    [] OTHER -> -1

\* parseInt(h, 16)
RECURSIVE ParseHex(_)
ParseHex(h) ==
  IF h = <<>> THEN 0
  ELSE 16 * ParseHex(SubSeq(h, 1, Len(h) - 1)) + DigitValue(h[Len(h)])

\* the number of hexadecimal digits of n written without leading zeros
RECURSIVE HexLength(_)
HexLength(n) == IF n < 16 THEN 1 ELSE 1 + HexLength(n \div 16)

\* C9: the nonce field of the SignTx request is the lowercase hexadecimal
\* representation of the nonce (0 when omitted), left-padded with at most one
\* zero to an even, non-zero length; parsing it gives back the nonce; 3 gives
\* "03" and 300 gives "012c".
C9_NonceIsEvenLengthHex ==
  (call.op = "signTransaction" /\ request.type = "SIGNTX") =>
    LET n == IF call.tx.nonce[1] = "undefined" THEN 0 ELSE call.tx.nonce[2]
        h == request.nonce
    IN /\ Len(h) > 0
       /\ Len(h) % 2 = 0
       /\ \A i \in 1..Len(h) : DigitValue(h[i]) >= 0
       /\ ParseHex(h) = n
       /\ Len(h) \in {HexLength(n), HexLength(n) + 1}
       /\ n = 3 => h = <<"0", "3">>
       /\ n = 300 => h = <<"0", "1", "2", "c">>

C9_Witness ==
  /\ call.op = "signTransaction"
  /\ call.tx.nonce = Num(300)
  /\ request.type = "SIGNTX"
  /\ request.nonce = <<"0", "1", "2", "c">>

\* C10: messageValidator throws for every input that is not a string and for
\* every string longer than 1024 bytes, and returns true for every string of
\* at most 1024 bytes whatever its characters: 1024 passes, 1025 fails.
C10_MessageValidatorBoundary ==
  output # Undefined =>
    IF input[1] = "string" /\ input[2] <= 1024
    THEN output = True
    ELSE output = Throws

C10_Witness ==
  /\ input = <<"string", 1024, 1>>
  /\ output = True

\* the index of the address record whose address is the current default
DefaultIndex == address[3]

\* the path array of the record at `index`, written out: m/44'/coin'/0'/0/index
RecordPathArray(index) ==
  << <<44, 1>>, <<allAddresses[index + 1].path[2], 1>>, <<0, 1>>, <<0, 0>>,
     <<index, 0>> >>

\* C11: on one wallet, a setDefaultAddress call that returns true makes the
\* record at its index the default; a call that does not return true, and
\* every sign, signMessage and verifyMessage call, leaves the default
\* address, public key and path as they were; so the default is always one
\* record (the one at index 0 after construction), and the path sign() and
\* signMessage() put into their request and the address verifyMessage()
\* uses when the caller gives none are those of that record.
C11_DefaultFollowsLastSuccessfulSet ==
  [][/\ instance' =>
          /\ DefaultIndex' + 1 \in DOMAIN allAddresses'
          /\ address' = allAddresses'[DefaultIndex' + 1].address
          /\ publicKey' = allAddresses'[DefaultIndex' + 1].publicKey
          /\ path' = allAddresses'[DefaultIndex' + 1].path
     /\ (call'.op = "open" /\ result'.value = WalletValue) => DefaultIndex' = 0
     /\ (call'.op = "setDefaultAddress" /\ result' = Resolve(True))
          => /\ call'.addressIndex[1] = "undefined" => DefaultIndex' = 0
             /\ call'.addressIndex[1] = "number"
                  => DefaultIndex' = call'.addressIndex[2]
     /\ (call'.op = "setDefaultAddress" /\ result' # Resolve(True))
          => UNCHANGED <<address, publicKey, path>>
     /\ call'.op \in {"sign", "signTransaction", "signMessage", "verifyMessage"}
          => UNCHANGED <<address, publicKey, path>>
     /\ call'.op = "sign"
          => /\ call'.passed.path = path
             /\ request'.type = "SIGNTX"
                  => request'.address_n = RecordPathArray(DefaultIndex)
     /\ (call'.op = "signMessage" /\ ~call'.static)
          => /\ request'.type = "SIGNMSG"
             /\ request'.path = RecordPathArray(DefaultIndex)
     /\ (call'.op = "verifyMessage" /\ ~call'.static
           /\ call'.address[1] = "undefined")
          => /\ request'.type = "VERIFYMSG"
             /\ request'.address = <<"address-no-0x", DeviceKey, DefaultIndex>>
    ]_vars

C11_Witness ==
  /\ call.op = "sign"
  /\ DefaultIndex = 2
  /\ path = allAddresses[3].path
  /\ request.type = "SIGNTX"
  /\ request.address_n = RecordPathArray(2)

====
